---- MODULE Spec2Model ----
(***************************************************************************)
(* Model of convert_videos_for_plex.py: Converter.get_files and            *)
(* Converter.convert with the File decision methods and the LockFile       *)
(* context manager, run by one or two process instances over a shared      *)
(* directory tree.                                                         *)
(*                                                                         *)
(* A source file is a number of Sources; the sources are numbered in the   *)
(* order the configured sort key and direction give them, so the sorted    *)
(* candidate list is the kept sources in increasing number.  stem[f] is    *)
(* the path of f without its extension: Path.with_suffix keeps it, so two  *)
(* sources with one stem share their destination and their lock marker.    *)
(***************************************************************************)
EXTENDS Naturals, Sequences, FiniteSets

\* the sources in the tree of Spec and SpecTwo
NumFiles == 2
\* the sources in the tree of SpecEta: an ETA takes two samples
EtaFiles == 3

\* the longest time calc_time is given in SpecCalc, in seconds: a day and more
MaxSeconds == 90000

Sources == 1..(IF EtaFiles > NumFiles THEN EtaFiles ELSE NumFiles)
Stems == Sources
Procs == {"A", "B"}

\* exts = ('avi', 'mkv', 'iso', 'img', 'm4v', 'ts'), line 149
exts == <<"avi", "mkv", "iso", "img", "m4v", "ts">>
\* the default of extensions, line 139
DefaultExtensions == {"avi", "mkv", "iso", "img", "mp4", "m4v", "ts"}
\* the extensions of the sources in the tree of SpecScan
ScanExts == {"avi", "mkv", "wmv"}

Presets == {"Fast 1080p30", "H.265 VCN 1080p", "Very Fast 720p30"}
Formats == {"AVC", "HEVC"}
\* what MediaInfo.parse gives for a file that is there
ParseResults == Formats \cup {"novideo", "RuntimeError"}
\* video_tracks[0].duration in minutes, line 87
Durations == {5, 15}
\* math.ceil(self.duration / 10) * 10, line 88
Bucket(d) == ((d + 9) \div 10) * 10
Buckets == {Bucket(d) : d \in Durations}

VARIABLES
    converter,   \* the run configuration (Converter.__init__), one for all instances
    instances,   \* the process instances that run convert
    stem,        \* stem[f]: the source path without its extension
    ext,         \* ext[f]: the extension of the source path
    length,      \* length[f]: the duration of the video track of f, in minutes
    disk,        \* the paths that exist, lock markers apart
    markers,     \* markers[s]: who created the marker file of stem s, "none" if absent
    pc,          \* pc[p]: where instance p is in convert
    idx,         \* idx[p]: position of the main loop in files[p]
    files,       \* files[p]: the list get_files returned
    file,        \* file[p][f]: the File object of source f
    touched,     \* touched[p]: LockFile._touched of the current lock
    after,       \* after[p]: how the with block is being left
    exc,         \* exc[p]: the call whose exception left or is leaving convert
    did,         \* did[p][f]: what instance p has done to source f so far
    out,         \* out[p][f]: the last line printed about source f
    time_avg,    \* time_avg[p][b]: the elapsed times of bucket b, each named by its source
    queue_data,  \* queue_data[p]: the times and durations of all encodes
    seconds,     \* the argument of a call of calc_time
    shown        \* what the call returned: the units of the text and their numbers

vars == <<converter, instances, stem, ext, length, disk, markers, pc, idx, files,
          file, touched, after, exc, did, out, time_avg, queue_data,
          seconds, shown>>

\* the names and durations in the tree
tree == <<stem, ext, length>>

\* the ETA history, and the call of calc_time of SpecCalc
history == <<time_avg, queue_data>>
calc == <<seconds, shown>>

\* ---------------------------------------------------------------- paths

\* File.source
Source(f) == <<"source", f>>

\* File.dest: source.with_suffix('.mp4')
Dest(f) == <<"mp4", stem[f]>>

\* LockFile.lock_file: file.source.with_suffix('.lock')
LockPath(f) == stem[f]

\* tmp: Path(self.workspace, file.name)
Tmp(f) == <<"workspace", f>>

\* tmp_out: Path(self.workspace, tmp_out.name)
TmpOut(f) == <<"workspace.mp4", stem[f]>>

\* LockFile.exists
LockExists(f) == markers[LockPath(f)] # "none"

\* ---------------------------------------------------------------- File

\* File.__init__
NewFile == [skip |-> "", run |-> FALSE, media_info |-> "None", format |-> "",
            duration |-> 0, duration_min |-> 0]

\* File.get_duration once the media info is parsed, d the duration it holds
get_duration(fl, d) ==
    IF fl.duration # 0 THEN fl
    ELSE [fl EXCEPT !.duration = d, !.duration_min = Bucket(d)]

\* check_output_exists with the force test inverted
check_output_exists_inverted(f, fl, d) ==
    IF fl.skip # "" THEN fl
    ELSE IF Dest(f) \in d
         THEN IF ~converter.force
              THEN [fl EXCEPT !.skip = "Overwriting"]
              ELSE [fl EXCEPT !.skip = "already exists"]
         ELSE fl

\* File.check_output_exists, on the directory contents d
check_output_exists(f, fl, d) ==
    IF fl.skip # "" THEN fl
    ELSE IF Dest(f) \in d
         THEN IF converter.force
              THEN [fl EXCEPT !.skip = "Overwriting"]
              ELSE [fl EXCEPT !.skip = "already exists"]
         ELSE fl

\* the match statement of File.check_media_info: the cases that leave run False
TargetCodec(ps, fmt) ==
    \/ ps = "H.265 VCN 1080p" /\ fmt = "HEVC"
    \/ ps = "Fast 1080p30" /\ fmt = "AVC"

\* File.check_media_info once the media info m, of duration d, is parsed and
\* skip is empty
check_media_info(fl, m, d) ==
    IF m = "novideo"
    THEN [fl EXCEPT !.media_info = m, !.skip = "missing info"]
    ELSE LET r == ~TargetCodec(converter.preset, m)
             g == IF fl.duration_min = 0 THEN get_duration(fl, d) ELSE fl
         IN  [g EXCEPT !.media_info = m, !.format = m, !.run = r,
                       !.skip = IF r THEN fl.skip ELSE "already requested"]

\* sorted(files, key=...): the kept sources in the order of the sort key
RECURSIVE Sorted(_)
Sorted(S) ==
    IF S = {} THEN <<>>
    ELSE LET m == CHOOSE x \in S : \A y \in S : x <= y
         IN  <<m>> \o Sorted(S \ {m})

\* ---------------------------------------------------------------- steps

Cur(p) == files[p][idx[p]]

\* leaving the with block by continue or break: LockFile.__exit__ runs next
Leave(p, how) ==
    /\ pc' = [pc EXCEPT ![p] = "exit"]
    /\ after' = [after EXCEPT ![p] = how]
    /\ UNCHANGED exc

\* leaving it by an exception of the call named
Raise(p, call) ==
    /\ pc' = [pc EXCEPT ![p] = "exit"]
    /\ after' = [after EXCEPT ![p] = "raise"]
    /\ exc' = [exc EXCEPT ![p] = call]

Say(p, f, line) == out' = [out EXCEPT ![p][f] = line]

Did(p, f, what) == did' = [did EXCEPT ![p][f] = @ \cup what]

\* the sources self.input.glob(f'**/*.{ext}') yields over the items of exts, on
\* the directory contents d, lines 151-155
glob(d) ==
    {f \in Sources : Source(f) \in d /\ \E i \in DOMAIN exts : ext[f] = exts[i]}

\* every candidate probed at scan time, whatever the sort
sort_probes_always == TRUE

\* whether get_files probes the kept files: only the Duration key calls
\* get_duration, lines 165-173; the probe of the scan loop is commented out,
\* lines 157-158
sort_probes == converter.sort_type = "Duration"

\* Converter.get_files: the scan with its pre-check, then the sort; the Duration
\* sort calls get_duration on every kept file, with no handler around it, and
\* get_duration reads video_tracks[0]
GetFiles(p) ==
    /\ pc[p] = "start"
    /\ LET found == glob(disk)
           scanned == [f \in Sources |->
                         IF f \in found THEN check_output_exists(f, NewFile, disk)
                         ELSE NewFile]
           kept == {f \in found : ~(~converter.force /\ scanned[f].skip # "")}
       IN  /\ did' = [did EXCEPT ![p] =
                        [f \in Sources |->
                           IF f \in found /\ Dest(f) \in disk THEN {"dest"} ELSE {}]]
           /\ IF sort_probes
              THEN \E m \in [kept -> ParseResults] :
                     IF \E f \in kept : m[f] \notin Formats
                     THEN /\ pc' = [pc EXCEPT ![p] = "crashed"]
                          /\ exc' = [exc EXCEPT ![p] = "MediaInfo"]
                          /\ file' = [file EXCEPT ![p] = scanned]
                          /\ UNCHANGED files
                     ELSE /\ pc' = [pc EXCEPT ![p] = "loop"]
                          /\ file' = [file EXCEPT ![p] =
                                [f \in Sources |->
                                   IF f \in kept
                                   THEN [get_duration(scanned[f], length[f])
                                           EXCEPT !.media_info = m[f]]
                                   ELSE scanned[f]]]
                          /\ files' = [files EXCEPT ![p] = Sorted(kept)]
                          /\ UNCHANGED exc
              ELSE /\ pc' = [pc EXCEPT ![p] = "loop"]
                   /\ file' = [file EXCEPT ![p] = scanned]
                   /\ files' = [files EXCEPT ![p] = Sorted(kept)]
                   /\ UNCHANGED exc
    /\ UNCHANGED <<converter, instances, tree, calc, disk, markers, idx,
                   touched, after, out, history>>

\* the loop head and lock.exists(), lines 219-226
LockCheck(p) ==
    /\ pc[p] = "loop"
    /\ IF idx[p] > Len(files[p])
       THEN /\ pc' = [pc EXCEPT ![p] = "done"]
            /\ UNCHANGED <<idx, out>>
       ELSE LET f == Cur(p) IN
            IF file[p][f].skip # "" /\ ~converter.force
            THEN /\ Say(p, f, file[p][f].skip)
                 /\ idx' = [idx EXCEPT ![p] = @ + 1]
                 /\ UNCHANGED pc
            ELSE IF LockExists(f)
            THEN /\ Say(p, f, "Lockfile exists")
                 /\ idx' = [idx EXCEPT ![p] = @ + 1]
                 /\ UNCHANGED pc
            ELSE /\ pc' = [pc EXCEPT ![p] = "touch"]
                 /\ UNCHANGED <<idx, out>>
    /\ UNCHANGED <<converter, instances, tree, calc, disk, markers, files,
                   file, touched, after, exc, did, history>>

\* LockFile.touch: Path.touch creates the marker unless it is there already
touch(p, f) ==
    /\ markers' = [markers EXCEPT ![LockPath(f)] = IF @ = "none" THEN p ELSE @]
    /\ touched' = [touched EXCEPT ![p] = TRUE]

\* an ETA shown from the first sample on
enough_one(n) == n >= 1

\* the sample counts that show an ETA, lines 230 and 254
enough(n) == n >= 2

\* the marker touched in dry-run mode too
touches_always == TRUE

\* if self.run, line 227
touches == converter.run

\* lines 227-240: the touch, then the Queue ETA of the 'Checking' line
LockTouch(p) ==
    /\ pc[p] = "touch"
    /\ IF touches
       THEN touch(p, Cur(p))
       ELSE UNCHANGED <<markers, touched>>
    /\ Did(p, Cur(p),
           (IF touches THEN {"touch"} ELSE {})
              \cup (IF enough(Len(queue_data[p].times)) THEN {"queue_eta"} ELSE {}))
    /\ pc' = [pc EXCEPT ![p] = "check"]
    /\ UNCHANGED <<converter, instances, tree, calc, disk, idx, files, file,
                   after, exc, out, history>>

\* the re-check of the destination, lines 241-244
CheckOutput(p) ==
    /\ pc[p] = "check"
    /\ LET f == Cur(p)
           fl == check_output_exists(f, file[p][f], disk)
       IN  /\ file' = [file EXCEPT ![p][f] = fl]
           /\ IF Dest(f) \in disk THEN Did(p, f, {"dest"}) ELSE UNCHANGED did
           /\ IF fl.skip # "" /\ ~converter.force
              THEN /\ Say(p, f, fl.skip)
                   /\ Leave(p, "continue")
              ELSE /\ pc' = [pc EXCEPT ![p] = "probe"]
                   /\ UNCHANGED <<after, exc, out>>
    /\ UNCHANGED <<converter, instances, tree, calc, disk, markers, idx, files,
                   touched, history>>

\* the ETA of the 'Transcoding' line, lines 251-256
ItemEta(p, fl) ==
    IF fl.run /\ enough(Len(time_avg[p][fl.duration_min])) THEN {"eta"} ELSE {}

\* after check_media_info returned fl, lines 251-257 and 296-299
Decided(p, f, fl) ==
    /\ file' = [file EXCEPT ![p][f] = fl]
    /\ IF fl.run
       THEN IF converter.run
            THEN /\ pc' = [pc EXCEPT ![p] =
                             IF converter.workspace THEN "stage" ELSE "encode"]
                 /\ Say(p, f, "Transcoding")
                 /\ UNCHANGED <<after, exc>>
            ELSE /\ Say(p, f, "Transcoded (DRY RUN)")
                 /\ Leave(p, "continue")
       ELSE /\ IF fl.skip # "" THEN Say(p, f, fl.skip) ELSE UNCHANGED out
            /\ Leave(p, "continue")

\* file.check_media_info(self.preset) under except RuntimeError, lines 246-250:
\* it returns at once when skip is set, parses unless media_info is cached, and
\* MediaInfo.parse raises FileNotFoundError for a path that is gone
CheckMediaInfo(p) ==
    /\ pc[p] = "probe"
    /\ LET f == Cur(p)
           fl == file[p][f]
       IN  IF fl.skip # ""
           THEN /\ Decided(p, f, fl)
                /\ Did(p, f, {"checked"})
           ELSE IF fl.media_info # "None"
           THEN LET g == check_media_info(fl, fl.media_info, length[f])
                IN  /\ Decided(p, f, g)
                    /\ Did(p, f, {"checked"} \cup ItemEta(p, g))
           ELSE IF Source(f) \notin disk
           THEN /\ Raise(p, "MediaInfo")
                /\ Did(p, f, {"probe"})
                /\ UNCHANGED <<file, out>>
           ELSE \E m \in ParseResults :
                  IF m = "RuntimeError"
                  THEN /\ Say(p, f, "ERROR")
                       /\ Leave(p, "continue")
                       /\ Did(p, f, {"probe"})
                       /\ UNCHANGED file
                  ELSE LET g == check_media_info(fl, m, length[f])
                       IN  /\ Decided(p, f, g)
                           /\ Did(p, f, {"probe", "checked"} \cup ItemEta(p, g))
    /\ UNCHANGED <<converter, instances, tree, calc, disk, markers, idx, files,
                   touched, history>>

\* shutil.copy2(file.source, tmp), lines 260-264
Stage(p) ==
    /\ pc[p] = "stage"
    /\ LET f == Cur(p) IN
       IF Source(f) \in disk
       THEN /\ disk' = disk \cup {Tmp(f)}
            /\ pc' = [pc EXCEPT ![p] = "encode"]
            /\ UNCHANGED <<after, exc>>
       ELSE /\ Raise(p, "copy2")
            /\ UNCHANGED disk
    /\ UNCHANGED <<converter, instances, tree, calc, markers, idx, files,
                   file, touched, did, out, history>>

\* the handler without its removal of the destination
cleanup_none(f, d) == d

\* if file.dest.exists(): file.dest.unlink(), lines 269-270
cleanup(f, d) == IF Dest(f) \in d THEN d \ {Dest(f)} ELSE d

\* the except BaseException handler of the encoder call, lines 268-274, on the
\* directory contents d the failed call left
EncodeFailed(p, f, d, called_process_error) ==
    /\ disk' = cleanup(f, d)
    /\ IF called_process_error
       THEN /\ Say(p, f, "HandBrakeCLI exited")
            /\ Leave(p, "continue")
            /\ Did(p, f, {"failed"})
       ELSE /\ Raise(p, "subprocess")
            /\ Did(p, f, {"raised"})
            /\ UNCHANGED out

\* every sample starting its bucket anew
append_time_anew(avg, duration, time) ==
    [avg EXCEPT ![duration] = <<time>>]

\* time_avg[duration].append(time) or, on KeyError, time_avg[duration] = [time],
\* lines 276-279; a bucket without a key is the empty sequence
append_time(avg, duration, time) ==
    [avg EXCEPT ![duration] = Append(@, time)]

\* subprocess.run([command, '-i', tmp, '-o', tmp_out, ...], check=True) and its
\* handler, lines 265-281.  The encoder reads tmp and writes tmp_out: it returns
\* success only with its input there and its output written; a failed call may
\* leave a partly written output behind.
Encode(p) ==
    /\ pc[p] = "encode"
    /\ LET f == Cur(p)
           tmp == IF converter.workspace THEN Tmp(f) ELSE Source(f)
           tmp_out == IF converter.workspace THEN TmpOut(f) ELSE Dest(f)
       IN  \/ /\ tmp \in disk
              /\ disk' = disk \cup {tmp_out}
              /\ Did(p, f, {"success"})
              /\ time_avg' = [time_avg EXCEPT ![p] =
                                append_time(@, file[p][f].duration_min, f)]
              /\ queue_data' = [queue_data EXCEPT
                                  ![p].times = Append(@, f),
                                  ![p].durations = Append(@, file[p][f].duration)]
              /\ pc' = [pc EXCEPT ![p] =
                          IF converter.workspace THEN "copyback" ELSE "sizes"]
              /\ UNCHANGED <<after, exc, out>>
           \/ \E partial \in BOOLEAN, called_process_error \in BOOLEAN :
                /\ EncodeFailed(p, f,
                                IF partial THEN disk \cup {tmp_out} ELSE disk,
                                called_process_error)
                /\ UNCHANGED history
    /\ UNCHANGED <<converter, instances, tree, calc, markers, idx, files, file,
                   touched>>

\* the copy back and the removal of the staging copies, lines 282-286; a missing
\* path raises FileNotFoundError where it is used
CopyBack(p) ==
    /\ pc[p] = "copyback"
    /\ LET f == Cur(p) IN
       IF TmpOut(f) \notin disk
       THEN /\ Raise(p, "copy2")
            /\ UNCHANGED disk
       ELSE IF Tmp(f) \notin disk
       THEN /\ Raise(p, "unlink")
            /\ disk' = disk \cup {Dest(f)}
       ELSE /\ disk' = (disk \cup {Dest(f)}) \ {Tmp(f), TmpOut(f)}
            /\ pc' = [pc EXCEPT ![p] = "sizes"]
            /\ UNCHANGED <<after, exc>>
    /\ UNCHANGED <<converter, instances, tree, calc, markers, idx, files,
                   file, touched, did, out, history>>

\* if self.stop_larger and new_size > original_size, line 290
stops(larger) == converter.stop_larger /\ larger

\* the stop-larger branch ending in continue
stop_leaves_continue == "continue"

\* how the stop-larger branch leaves the loop, line 293
stop_leaves == "break"

\* the source unlinked ahead of the stop-larger guard
deletes_source_unguarded(larger) == converter.delete_original

\* whether line 295 is reached and unlinks the source, lines 290-295
deletes_source(larger) == ~stops(larger) /\ converter.delete_original

\* the sizes, the stop-larger guard and delete_original, lines 287-295; larger
\* is new_size > original_size
Finish(p) ==
    /\ pc[p] = "sizes"
    /\ LET f == Cur(p) IN
       IF Source(f) \notin disk \/ Dest(f) \notin disk
       THEN /\ Raise(p, "stat")
            /\ UNCHANGED <<disk, did, out>>
       ELSE \E larger \in BOOLEAN :
              /\ disk' = (IF stops(larger) THEN disk \ {Dest(f)} ELSE disk)
                            \ (IF deletes_source(larger) THEN {Source(f)} ELSE {})
              /\ IF deletes_source(larger) THEN Did(p, f, {"delete"})
                 ELSE UNCHANGED did
              /\ IF stops(larger)
                 THEN /\ Say(p, f, "Output > Input: STOPPING")
                      /\ Leave(p, stop_leaves)
                 ELSE /\ Say(p, f, "Transcoded")
                      /\ Leave(p, "continue")
    /\ UNCHANGED <<converter, instances, tree, calc, markers, idx, files, file,
                   touched, history>>

\* __exit__ unlinking on a continue only
unlinks_on_continue(p) == touched[p] /\ after[p] = "continue"

\* if self._touched, line 43
unlinks(p) == touched[p]

\* LockFile.__exit__, then the continue, break or raise that left the block;
\* unlink raises FileNotFoundError when the marker is gone
Release(p) ==
    /\ pc[p] = "exit"
    /\ LET f == Cur(p)
           gone == unlinks(p) /\ ~LockExists(f)
       IN  /\ IF unlinks(p) /\ LockExists(f)
              THEN markers' = [markers EXCEPT ![LockPath(f)] = "none"]
              ELSE UNCHANGED markers
           /\ pc' = [pc EXCEPT ![p] =
                       IF gone \/ after[p] = "raise" THEN "crashed"
                       ELSE IF after[p] = "break" THEN "stopped"
                       ELSE "loop"]
           /\ idx' = [idx EXCEPT ![p] =
                       IF ~gone /\ after[p] = "continue" THEN @ + 1 ELSE @]
           /\ exc' = [exc EXCEPT ![p] = IF gone THEN "__exit__" ELSE @]
    /\ touched' = [touched EXCEPT ![p] = FALSE]
    /\ after' = [after EXCEPT ![p] = ""]
    /\ UNCHANGED <<converter, instances, tree, calc, disk, files, file, did,
                   out, history>>

\* Converter.calc_time: f'{hours:02}H {minutes:02}M', lines 204-208
calc_time(sec) == <<<<"H", sec \div 3600>>, <<"M", sec \div 60>>>>

\* a call of calc_time
CalcTime ==
    /\ shown = <<>>
    /\ shown' = calc_time(seconds)
    /\ UNCHANGED <<converter, instances, tree, seconds, disk, markers, pc, idx,
                   files, file, touched, after, exc, did, out, history>>

Next ==
    \/ \E p \in instances : GetFiles(p)
    \/ \E p \in instances : LockCheck(p)
    \/ \E p \in instances : LockTouch(p)
    \/ \E p \in instances : CheckOutput(p)
    \/ \E p \in instances : CheckMediaInfo(p)
    \/ \E p \in instances : Stage(p)
    \/ \E p \in instances : Encode(p)
    \/ \E p \in instances : CopyBack(p)
    \/ \E p \in instances : Finish(p)
    \/ \E p \in instances : Release(p)

\* ---------------------------------------------------------------- Init

\* if not extensions: extensions = (...), lines 138-140
Extensions(extensions) ==
    IF extensions = {} THEN DefaultExtensions ELSE extensions

\* the command lines without -e and --exclude
Configs ==
    [run : BOOLEAN, force : BOOLEAN, delete_original : BOOLEAN,
     stop_larger : BOOLEAN, workspace : BOOLEAN, preset : Presets,
     sort_type : {"Name", "Duration"},
     extensions : {Extensions({})}, exclude : {{}}]

\* the ways the first n sources share stems, each once
StemMaps(n) ==
    {s \in [Sources -> Stems] :
        \A f \in Sources :
            IF f > n THEN s[f] = f
            ELSE \/ s[f] = 1
                 \/ \E g \in 1..(f - 1) : s[f] <= s[g] + 1}

\* a tree of n sources before the run: the sources, any destinations, and any
\* markers a killed instance left behind
InitFiles(n) ==
    /\ stem \in StemMaps(n)
    /\ \E mp4 \in SUBSET {stem[f] : f \in 1..n} :
         disk = {Source(f) : f \in 1..n} \cup {<<"mp4", s>> : s \in mp4}
    /\ \E stale \in SUBSET {stem[f] : f \in 1..n} :
         markers = [s \in Stems |-> IF s \in stale THEN "other" ELSE "none"]

\* every video track of one duration
SameLength == length = [f \in Sources |-> 5]

\* every source of an extension get_files looks for, no two of one stem alike
Globbed == ext = [f \in Sources |-> exts[((f - 1) % Len(exts)) + 1]]

InitProcs ==
    /\ pc = [p \in Procs |-> "start"]
    /\ idx = [p \in Procs |-> 1]
    /\ files = [p \in Procs |-> <<>>]
    /\ file = [p \in Procs |-> [f \in Sources |-> NewFile]]
    /\ touched = [p \in Procs |-> FALSE]
    /\ after = [p \in Procs |-> ""]
    /\ exc = [p \in Procs |-> ""]
    /\ did = [p \in Procs |-> [f \in Sources |-> {}]]
    /\ out = [p \in Procs |-> [f \in Sources |-> ""]]
    /\ time_avg = [p \in Procs |-> [b \in Buckets |-> <<>>]]
    /\ queue_data = [p \in Procs |-> [times |-> <<>>, durations |-> <<>>]]

\* no call of calc_time on its own
NoCalc == seconds = 0 /\ shown = <<>>

\* one instance, any configuration
Init ==
    /\ converter \in Configs
    /\ instances = {"A"}
    /\ InitFiles(NumFiles)
    /\ SameLength
    /\ Globbed
    /\ InitProcs
    /\ NoCalc

Spec == Init /\ [][Next]_vars

\* two instances started in execute mode with one command line on one tree
InitTwo ==
    /\ converter \in {c \in Configs : /\ c.run
                                      /\ ~c.force
                                      /\ c.sort_type = "Name"
                                      /\ c.preset = "Fast 1080p30"}
    /\ instances = Procs
    /\ InitFiles(NumFiles)
    /\ SameLength
    /\ Globbed
    /\ InitProcs
    /\ NoCalc

SpecTwo == InitTwo /\ [][Next]_vars

\* one instance on a tree of EtaFiles sources of any durations, no two of one
\* stem, with no destination and no marker yet
InitEta ==
    /\ converter \in {c \in Configs : /\ ~c.force
                                      /\ ~c.delete_original
                                      /\ c.sort_type = "Name"
                                      /\ c.preset = "Fast 1080p30"}
    /\ instances = {"A"}
    /\ stem = [f \in Sources |-> f]
    /\ length \in [Sources -> Durations]
    /\ Globbed
    /\ disk = {Source(f) : f \in 1..EtaFiles}
    /\ markers = [s \in Stems |-> "none"]
    /\ InitProcs
    /\ NoCalc

SpecEta == InitEta /\ [][Next]_vars

\* the scan alone, in dry-run mode, with any -e and --exclude on the command
\* line: an extension set, and exclude patterns that each match the paths of
\* one stem
InitScan ==
    /\ converter \in
         [run : {FALSE}, force : BOOLEAN, delete_original : {FALSE},
          stop_larger : {FALSE}, workspace : {FALSE}, preset : {"Fast 1080p30"},
          sort_type : {"Name"},
          extensions : {Extensions(e) : e \in SUBSET ScanExts},
          exclude : SUBSET (1..NumFiles)]
    /\ instances = {"A"}
    /\ InitFiles(NumFiles)
    /\ SameLength
    /\ ext \in {x \in [Sources -> ScanExts] :
                  \A f \in Sources, g \in Sources :
                      (f # g /\ stem[f] = stem[g]) => x[f] # x[g]}
    /\ InitProcs
    /\ NoCalc

NextScan == \E p \in instances : GetFiles(p)

SpecScan == InitScan /\ [][NextScan]_vars

\* calc_time alone, called with any whole number of seconds up to MaxSeconds
InitCalc ==
    /\ converter \in {c \in Configs : /\ ~c.run /\ ~c.force /\ ~c.delete_original
                                      /\ ~c.stop_larger /\ ~c.workspace
                                      /\ c.sort_type = "Name"
                                      /\ c.preset = "Fast 1080p30"}
    /\ instances = {}
    /\ stem = [f \in Sources |-> f]
    /\ disk = {}
    /\ markers = [s \in Stems |-> "none"]
    /\ SameLength
    /\ Globbed
    /\ InitProcs
    /\ seconds \in 0..MaxSeconds
    /\ shown = <<>>

SpecCalc == InitCalc /\ [][CalcTime]_vars

\* ---------------------------------------------------------------- claims

\* the main loop of p stands on a candidate
HasCur(p) == idx[p] \in 1..Len(files[p])

\* the encoder was called for f by p
Invoked(p, f) == did[p][f] \cap {"success", "failed", "raised"} # {}

\* C1: lock acquisition is exclusive across instances: no two instances hold
\* (have touched and not yet released) the lock of the same source at once.
C1_LockExclusive ==
    \A p \in Procs, q \in Procs :
        (p # q /\ touched[p] /\ touched[q]) => Cur(p) # Cur(q)

\* C2: a marker file is only ever unlinked by the __exit__ of the instance that
\* created it.
C2_UnlinksOwnMarkerOnly ==
    [][\A s \in Stems :
          (markers[s] # "none" /\ markers'[s] = "none")
             => \E p \in Procs : /\ pc[p] = "exit"
                                 /\ pc'[p] # "exit"
                                 /\ markers[s] = p]_vars

\* C3: in execute mode, whenever an instance is outside the per-candidate block
\* (between candidates, returned, stopped or raised) no marker it created is on
\* disk.
C3_NoMarkerLeft ==
    converter.run =>
        \A p \in instances :
            pc[p] \in {"start", "loop", "done", "stopped", "crashed"}
                => \A s \in Stems : markers[s] # p

\* an instance that took a lock and left convert by the break or by an exception
C3_Witness ==
    /\ converter.run
    /\ pc["A"] \in {"stopped", "crashed"}
    /\ HasCur("A")
    /\ "touch" \in did["A"][Cur("A")]
    /\ markers[LockPath(Cur("A"))] = "none"

\* C4: with force set, a candidate whose destination exists and whose probed
\* format is not the preset's target gets the run decision.
C4_ForceProceeds ==
    \A p \in instances, f \in Sources :
        (/\ converter.force
         /\ "dest" \in did[p][f]
         /\ "checked" \in did[p][f]
         /\ file[p][f].media_info \in Formats
         /\ ~TargetCodec(converter.preset, file[p][f].media_info))
            => file[p][f].run

\* C5: without force, a candidate whose destination was seen to exist, at the
\* scan or at the re-check, has the 'already exists' skip reason, run = False,
\* and the encoder is never called for it.
C5_ExistingNeverEncoded ==
    ~converter.force =>
        \A p \in instances, f \in Sources :
            "dest" \in did[p][f] => /\ ~Invoked(p, f)
                                    /\ file[p][f].skip = "already exists"
                                    /\ ~file[p][f].run

\* a destination that appeared after the scan and was found by the re-check
C5_Witness ==
    /\ ~converter.force
    /\ \E f \in Sources : /\ "dest" \in did["A"][f]
                          /\ out["A"][f] = "already exists"
                          /\ "touch" \in did["A"][f]

\* C6: a candidate whose probed format is the preset's target is skipped as
\* 'already requested' with run = False, force or not; any other candidate that is
\* not blocked by an existing destination (one seen without force) gets run.
C6_DecisionTable ==
    \A p \in instances, f \in Sources :
        ("checked" \in did[p][f] /\ file[p][f].media_info \in Formats) =>
            IF TargetCodec(converter.preset, file[p][f].media_info)
            THEN file[p][f].skip = "already requested" /\ ~file[p][f].run
            ELSE (~converter.force /\ "dest" \in did[p][f]) \/ file[p][f].run

C8_StopLarger ==
    \A p \in instances, f \in Sources :
        out[p][f] = "Output > Input: STOPPING" =>
            /\ HasCur(p)
            /\ Cur(p) = f
            /\ Dest(f) \notin disk
            /\ Source(f) \in disk
            /\ \/ pc[p] = "exit" /\ after[p] = "break"
               \/ pc[p] = "stopped" /\ markers[LockPath(f)] = "none"
            /\ \A j \in (idx[p] + 1)..Len(files[p]) :
                   /\ did[p][files[p][j]] \subseteq {"dest"}
                   /\ out[p][files[p][j]] = ""

\* convert has ended on the guard with delete_original set and candidates left
C8_Witness ==
    /\ pc["A"] = "stopped"
    /\ converter.delete_original
    /\ idx["A"] < Len(files["A"])
    /\ out["A"][Cur("A")] = "Output > Input: STOPPING"

\* C9: a step removes a source only with delete_original set, in execute mode,
\* after the encoder returned success for it in this run, with its destination
\* there before and after the step, and not on the stop-larger branch.
C9_DeleteOnlyAfterSuccess ==
    [][\A f \in Sources :
          (Source(f) \in disk /\ Source(f) \notin disk') =>
              \E p \in instances :
                  /\ converter.delete_original
                  /\ converter.run
                  /\ pc[p] = "sizes"
                  /\ Cur(p) = f
                  /\ "success" \in did[p][f]
                  /\ Dest(f) \in disk
                  /\ Dest(f) \in disk'
                  /\ after'[p] = "continue"
                  /\ out'[p][f] = "Transcoded"]_vars

\* a source deleted by the run
C9_Witness ==
    \E f \in Sources : Source(f) \notin disk /\ "delete" \in did["A"][f]

\* C10: no exception of the media-inspection call leaves convert.
C10_ProbeFailureNeverCrashes ==
    \A p \in instances : exc[p] # "MediaInfo"

\* the candidates after the one the main loop of p stands on
Later(p) == {files[p][i] : i \in (idx[p] + 1)..Len(files[p])}

\* p has started or completed the probe of f
Probed(p, f) == file[p][f].media_info # "None" \/ "probe" \in did[p][f]

Asked(d) ==
    {f \in Sources : /\ Source(f) \in d
                     /\ ext[f] \in converter.extensions
                     /\ stem[f] \notin converter.exclude
                     /\ (converter.force \/ Dest(f) \notin d)}

\* C12: the list get_files returns holds, each exactly once, exactly the files
\* whose extension is in the configured extensions and whose path matches no
\* configured exclude pattern, less those the destination-exists pre-check
\* removes when force is off.
C12_Candidates ==
    \A p \in instances :
        pc[p] = "loop"
            => /\ {files[p][i] : i \in 1..Len(files[p])} = Asked(disk)
               /\ Len(files[p]) = Cardinality(Asked(disk))
\* the sources get_files came upon: the candidates, and those its pre-check
\* removed
Discovered(p) ==
    {files[p][i] : i \in 1..Len(files[p])}
        \cup {f \in Sources : "dest" \in did[p][f]}

\* C13: for every file the scanner discovered, the run emits a one-line
\* per-file outcome (its skip reason, its failure, or that it was transcoded);
\* no discovered file is dropped from the run without an explanation of its own.
C13_EveryFileExplained ==
    \A p \in instances :
        pc[p] = "done" => \A f \in Discovered(p) : out[p][f] # ""

\* C14: an ETA is shown only with at least 2 samples in its scope: the Queue
\* ETA of a candidate only when the global history holds 2 or more elapsed
\* times, the per-item ETA only when the bucket of the candidate's duration_min
\* holds 2 or more.
C14_EtaNeedsTwoSamples ==
    [][\A p \in instances, f \in Sources :
          /\ ("queue_eta" \in did'[p][f] \ did[p][f])
                => Len(queue_data[p].times) >= 2
          /\ ("eta" \in did'[p][f] \ did[p][f])
                => Len(time_avg[p][file'[p][f].duration_min]) >= 2]_vars

C14_Witness ==
    \E f \in Sources, g \in Sources :
        /\ "queue_eta" \in did["A"][f]
        /\ "eta" \in did["A"][f]
        /\ "success" \in did["A"][g]
        /\ did["A"][g] \cap {"queue_eta", "eta"} = {}

\* the minutes a unit of the text stands for
MinutesOf(unit) ==
    IF unit = "D" THEN 1440 ELSE IF unit = "H" THEN 60 ELSE 1

\* the minutes the units from the i-th on add up to
RECURSIVE Shown(_, _)
Shown(text, i) ==
    IF i > Len(text) THEN 0
    ELSE MinutesOf(text[i][1]) * text[i][2] + Shown(text, i + 1)

\* C15: calc_time renders the seconds as whole days, hours and minutes (hours
\* below 24 when days are shown, minutes below 60 when hours are shown), leaves
\* out the leading units that are zero and always shows the minutes, so that
\* the units shown add up to the input truncated to whole minutes.
C15_DaysHoursMinutes ==
    shown # <<>>
        => /\ \E k \in 1..3 : [i \in 1..Len(shown) |-> shown[i][1]]
                                 = SubSeq(<<"D", "H", "M">>, k, 3)
           /\ Len(shown) > 1 => shown[1][2] # 0
           /\ \A i \in 2..Len(shown) :
                 shown[i][2] < (IF shown[i][1] = "H" THEN 24 ELSE 60)
           /\ Shown(shown, 1) = seconds \div 60

\* the sources whose encoder call returned success in the run of p
Successes(p) == {f \in Sources : "success" \in did[p][f]}

\* the items of a sequence
Range(q) == {q[i] : i \in 1..Len(q)}

\* the sum of the bucket lengths of B
RECURSIVE Samples(_, _)
Samples(avg, B) ==
    IF B = {} THEN 0
    ELSE LET b == CHOOSE x \in B : TRUE
         IN  Len(avg[b]) + Samples(avg, B \ {b})

\* C16: the ETA history is empty at the start of convert and holds exactly one
\* sample per encoder call that returned success in this run, in the bucket of
\* that candidate's duration_min and in the global sequence; skipped
\* candidates, failed encodes and dry-run items append nothing, so the global
\* length equals the sum of the bucket lengths and the number of successes.
C16_OneSamplePerSuccess ==
    \A p \in instances :
        /\ Range(queue_data[p].times) = Successes(p)
        /\ Len(queue_data[p].times) = Cardinality(Successes(p))
        /\ Len(queue_data[p].durations) = Len(queue_data[p].times)
        /\ \A b \in Buckets :
              /\ Range(time_avg[p][b])
                    = {f \in Successes(p) : file[p][f].duration_min = b}
              /\ Len(time_avg[p][b]) = Cardinality(Range(time_avg[p][b]))
        /\ Samples(time_avg[p], Buckets) = Len(queue_data[p].times)

C16_Witness ==
    /\ \E b \in Buckets : Len(time_avg["A"][b]) >= 2
    /\ \E f \in Sources : "failed" \in did["A"][f]

\* C17: in execute mode with a workspace, after a candidate's processing ends,
\* whether the encoder succeeded or failed, neither the staged copy of the
\* source nor the staged output remains in the workspace.
C17_NoStagingLeft ==
    \A p \in instances :
        (converter.run /\ converter.workspace /\ pc[p] \in {"loop", "done"})
            => \A f \in Sources : Tmp(f) \notin disk /\ TmpOut(f) \notin disk

\* C18: markers are keyed 1:1 by source: the marker of one source never makes
\* an instance skip a different source.  Whenever an instance skips g for a
\* marker that an instance created and still holds, that instance is working
\* on g.
C18_MarkerPerSource ==
    [][\A q \in instances, g \in Sources :
          (/\ out'[q][g] = "Lockfile exists"
           /\ out[q][g] # "Lockfile exists"
           /\ markers[LockPath(g)] \in Procs)
              => /\ HasCur(markers[LockPath(g)])
                 /\ Cur(markers[LockPath(g)]) = g]_vars

C20_SourceOrDestination ==
    \A f \in 1..NumFiles : Source(f) \in disk \/ Dest(f) \in disk
====
